---- MODULE Spec2Model ----
(***************************************************************************)
(* A model of gungnir::TaskPool (include/gungnir/gungnir.hpp): the task    *)
(* queue, the worker loop, the two-phase destructor and the dispatch       *)
(* operations, with one client thread issuing dispatch calls and one       *)
(* thread running the destructor; and of the free functions onSuccess,     *)
(* onFailure and onComplete, with the detached thread they start.          *)
(***************************************************************************)
EXTENDS Integers, Sequences, FiniteSets, TLC

\* Bounds of the model.
MaxThreads == 2     \* largest worker count numThreads_ explored
MaxCalls == 2       \* dispatch calls the client issues
MaxTasks == 3       \* user tasks handed to the pool over all calls

VARIABLES
    numThreads_,    \* const std::size_t numThreads_
    destroyed_,     \* std::atomic<bool> destroyed_
    tasks_,         \* BlockingConcurrentQueue<Task<void>> tasks_, a FIFO:
                    \* enqueue appends, the dequeues take the head
    threads_,       \* std::vector<std::thread> threads_: workers, then drainers
    numDones,       \* std::atomic<std::size_t> numDones of the destructor
    dtor,           \* position of the thread running ~TaskPool
    client,         \* position of the client thread inside a dispatch call
    ncalls,         \* number of dispatch calls the client has made
    call,           \* the client's latest dispatch call, with its outcome
    task,           \* the user tasks: kind, wrapper, execution status, thread
    slot,           \* the std::promise of each task of a value-returning form
    flag,           \* the std::once_flag shared by the dispatchOnce calls
    crashed,        \* std::terminate was called (an exception left a thread)
    completion      \* the detached thread of onSuccess/onFailure/onComplete

vars == <<numThreads_, destroyed_, tasks_, threads_, numDones, dtor, client,
          ncalls, call, task, slot, flag, crashed, completion>>

Threads == 1..MaxThreads
TaskIds == 1..MaxTasks

\* What a user task is: a callable that returns, one that throws, or an
\* empty std::function (no target).
TaskKinds == {"ok", "fail", "empty"}

\* The value a task's body returns.
TaskValue(tid) == 100 + tid

NoThread == <<>>
NoItem == [k |-> "none", c |-> 0, t |-> 0, n |-> 0]
\* Task<void>{} : the empty function the destructor enqueues.
Sentinel == [k |-> "sentinel", c |-> 0, t |-> 0, n |-> 0]

\* A user task: what it is (kind), the closure it was wrapped in and whether
\* that closure reached the queue (form, grp: the first task of its closure,
\* enq), and how its execution went (st, runs: times its body was started,
\* thr: the thread that started it).
NoTask == [kind |-> "none", form |-> "none", grp |-> 0, enq |-> FALSE,
           st |-> "new", runs |-> 0, thr |-> NoThread]

\* A dispatch call: the operation, its range (tasks first..first+n-1), the
\* value of destroyed_ when it was entered, how it ended, the number of
\* functions it put on the queue, the results it returned, and the counter
\* of the void dispatchSync.
NoCall == [op |-> "none", first |-> 0, n |-> 0, sealed |-> FALSE,
           status |-> "none", enq |-> 0, res |-> <<>>, count |-> 0]

\* Number of user tasks handed over so far.
NumTasks == Cardinality({t \in TaskIds : task[t].kind # "none"})

\* The ranges a caller can still pass: up to the remaining task budget.
Ranges(kinds) ==
    UNION {[1..m -> kinds] : m \in 0..(MaxTasks - NumTasks)}

Singles(kinds) == IF NumTasks < MaxTasks THEN kinds ELSE {}

Running == ~crashed

\* What a callback handed to onSuccess/onFailure/onComplete does when it is
\* called: it returns, or it throws.
CallbackKinds == {"ok", "fail"}

\* No callback is registered: op is the registering function, t the task
\* whose future it watches, success and failure the callbacks' kinds, exc
\* the exception in flight in the thread, calls the callback invocations made
\* so far, each with its argument.
NoCompletion == [op |-> "none", pc |-> "none", t |-> 0, success |-> "none",
                 failure |-> "none", exc |-> "none", calls |-> <<>>]

----------------------------------------------------------------------------
\* Construction: TaskPool(numThreads) spawns numThreads_ workers.
Worker0 == [role |-> "worker", pc |-> "dequeue", it |-> NoItem, i |-> 0]
NoWorker == [role |-> "none", pc |-> "exited", it |-> NoItem, i |-> 0]

Init ==
    /\ numThreads_ \in 0..MaxThreads
    /\ destroyed_ = FALSE
    /\ tasks_ = <<>>
    /\ threads_ = [w \in Threads |-> IF w <= numThreads_ THEN Worker0 ELSE NoWorker]
    /\ numDones = 0
    /\ dtor = [pc |-> "alive", i |-> 0, raced |-> FALSE]
    /\ client = [pc |-> "idle", k |-> 0]
    /\ ncalls = 0
    /\ call = NoCall
    /\ task = [t \in TaskIds |-> NoTask]
    /\ slot = [t \in TaskIds |-> [st |-> "none", v |-> 0]]
    /\ flag = "idle"
    /\ crashed = FALSE
    /\ completion = NoCompletion

----------------------------------------------------------------------------
\* The acceptance gate.

\* Mutant: the two tests of checkArgs in the other order.
CheckArgsTaskFirst(kind) ==
    IF kind = "empty" THEN "InvalidTask"
    ELSE IF destroyed_ THEN "PoolDestroyed"
    ELSE "pass"

\* checkArgs(const T &task): the pool-destroyed test comes first.
CheckArgs(kind) ==
    IF destroyed_ THEN "PoolDestroyed"
    ELSE IF kind = "empty" THEN "InvalidTask"
    ELSE "pass"

\* Mutant: only the first element of the range is tested.
CheckArgsRangeFirstOnly(args) ==
    IF destroyed_ THEN "PoolDestroyed"
    ELSE IF Len(args) > 0 /\ args[1] = "empty" THEN "InvalidTask"
    ELSE "pass"

\* checkArgs(Iter first, Iter last): std::all_of over the whole range.
CheckArgsRange(args) ==
    IF destroyed_ THEN "PoolDestroyed"
    ELSE IF \E j \in 1..Len(args) : args[j] = "empty" THEN "InvalidTask"
    ELSE "pass"

\* Every range-taking form starts with `if (first >= last) return`.
RangeGate(args) == IF Len(args) = 0 THEN "ok" ELSE CheckArgsRange(args)

\* Mutant: the counter starts one above the range length.
InitialCountLong(args) == Len(args) + 1

\* Mutant: the counter starts one short of the range length.
InitialCountShort(args) == Len(args) - 1

\* std::atomic<std::size_t> count{static_cast<std::size_t>(last - first)}
InitialCount(args) == Len(args)

\* A call enters a dispatch operation: the operation's first statements run
\* (the gate), and the call either ends there or goes on at position pc.
Begin(op, args, verdict, pc) ==
    /\ Running
    /\ client.pc = "idle"
    /\ ncalls < MaxCalls
    /\ Len(args) <= MaxTasks - NumTasks
    /\ ncalls' = ncalls + 1
    /\ call' = [op |-> op, first |-> NumTasks + 1, n |-> Len(args),
                sealed |-> destroyed_,
                status |-> IF verdict = "pass" THEN "running" ELSE verdict,
                enq |-> 0, res |-> <<>>,
                count |-> IF op = "dispatchSync" /\ verdict = "pass"
                          THEN InitialCount(args) ELSE 0]
    /\ task' = [t \in TaskIds |->
                  IF t > NumTasks /\ t <= NumTasks + Len(args)
                  THEN [task[t] EXCEPT !.kind = args[t - NumTasks]]
                  ELSE task[t]]
    /\ client' = IF verdict = "pass" THEN [pc |-> pc, k |-> 1]
                 ELSE [pc |-> "idle", k |-> 0]

\* void dispatch(const Task<void> &task)
DispatchVoid(kind) ==
    /\ Begin("dispatch", <<kind>>, CheckArgs(kind), "enqueue")
    /\ UNCHANGED <<completion, numThreads_, destroyed_, tasks_, threads_, numDones, dtor,
                   slot, flag, crashed>>

\* std::future<R> dispatch(const Task<R> &task)
DispatchValue(kind) ==
    /\ Begin("dispatchR", <<kind>>, CheckArgs(kind), "enqueue")
    /\ UNCHANGED <<completion, numThreads_, destroyed_, tasks_, threads_, numDones, dtor,
                   slot, flag, crashed>>

\* void dispatch(Iter first, Iter last)
DispatchBulk(args) ==
    /\ Begin("dispatchBulk", args, RangeGate(args), "bulk")
    /\ UNCHANGED <<completion, numThreads_, destroyed_, tasks_, threads_, numDones, dtor,
                   slot, flag, crashed>>

\* std::vector<std::future<R>> dispatch(Iter first, Iter last)
DispatchBulkValue(args) ==
    /\ Begin("dispatchBulkR", args, RangeGate(args), "check")
    /\ UNCHANGED <<completion, numThreads_, destroyed_, tasks_, threads_, numDones, dtor,
                   slot, flag, crashed>>

\* void dispatchSync(Iter first, Iter last): count{last - first}
DispatchSync(args) ==
    /\ Begin("dispatchSync", args, RangeGate(args), "check")
    /\ UNCHANGED <<completion, numThreads_, destroyed_, tasks_, threads_, numDones, dtor,
                   slot, flag, crashed>>

\* std::vector<R> dispatchSync(Iter first, Iter last)
DispatchSyncValue(args) ==
    /\ Begin("dispatchSyncR", args, RangeGate(args), "check")
    /\ UNCHANGED <<completion, numThreads_, destroyed_, tasks_, threads_, numDones, dtor,
                   slot, flag, crashed>>

\* void dispatchSerial(Iter first, Iter last)
DispatchSerial(args) ==
    /\ Begin("dispatchSerial", args, RangeGate(args), "check")
    /\ UNCHANGED <<completion, numThreads_, destroyed_, tasks_, threads_, numDones, dtor,
                   slot, flag, crashed>>

\* std::vector<std::future<R>> dispatchSerial(Iter first, Iter last): the
\* promises are made, and their futures taken, before the composite is
\* dispatched.
DispatchSerialValue(args) ==
    /\ Begin("dispatchSerialR", args, RangeGate(args), "check")
    /\ slot' = [t \in TaskIds |->
                  IF RangeGate(args) = "pass"
                     /\ t > NumTasks /\ t <= NumTasks + Len(args)
                  THEN [st |-> "unset", v |-> 0] ELSE slot[t]]
    /\ UNCHANGED <<completion, numThreads_, destroyed_, tasks_, threads_, numDones, dtor,
                   flag, crashed>>

\* void dispatchOnce(std::once_flag &flag, const Task<void> &task): the gate
\* sees the wrapping lambda, which always has a target, never `task`.
DispatchOnce(kind) ==
    /\ Begin("dispatchOnce", <<kind>>, CheckArgs("ok"), "enqueue")
    /\ UNCHANGED <<completion, numThreads_, destroyed_, tasks_, threads_, numDones, dtor,
                   slot, flag, crashed>>

----------------------------------------------------------------------------
\* The inner dispatch that every form but the void bulk one ends in: the
\* gate on the wrapper, then tasks_.enqueue.

PerElement == {"dispatchBulkR", "dispatchSync", "dispatchSyncR"}

\* The function the call enqueues at its k-th step: the user task itself, or
\* the closure the form wraps it in. c is the call whose locals a closure
\* captures by reference, t the (first) user task, n the number of tasks.
Wrapper(cl, c, k) ==
    CASE cl.op = "dispatch"        -> [k |-> "void",    c |-> c, t |-> cl.first, n |-> 1]
      [] cl.op = "dispatchR"       -> [k |-> "value",   c |-> c, t |-> cl.first, n |-> 1]
      [] cl.op = "dispatchBulk"    -> [k |-> "void",    c |-> c, t |-> cl.first + k - 1, n |-> 1]
      [] cl.op = "dispatchBulkR"   -> [k |-> "value",   c |-> c, t |-> cl.first + k - 1, n |-> 1]
      [] cl.op = "dispatchSync"    -> [k |-> "sync",    c |-> c, t |-> cl.first + k - 1, n |-> 1]
      [] cl.op = "dispatchSyncR"   -> [k |-> "value",   c |-> c, t |-> cl.first + k - 1, n |-> 1]
      [] cl.op = "dispatchSerial"  -> [k |-> "serial",  c |-> c, t |-> cl.first, n |-> cl.n]
      [] cl.op = "dispatchSerialR" -> [k |-> "serialR", c |-> c, t |-> cl.first, n |-> cl.n]
      [] cl.op = "dispatchOnce"    -> [k |-> "once",    c |-> c, t |-> cl.first, n |-> 1]

\* The user tasks, marked as carried by the functions `items` now on the queue.
Enqueued(items) ==
    [t \in TaskIds |->
       IF \E j \in 1..Len(items) : t >= items[j].t /\ t < items[j].t + items[j].n
       THEN LET it == items[CHOOSE j \in 1..Len(items) :
                             t >= items[j].t /\ t < items[j].t + items[j].n]
            IN [task[t] EXCEPT !.form = it.k, !.grp = it.t, !.enq = TRUE]
       ELSE task[t]]

\* The call leaves with an outcome.
Leave(status) ==
    /\ call' = [call EXCEPT !.status = status]
    /\ client' = [pc |-> "idle", k |-> 0]

\* checkArgs(task) of the inner dispatch(...) a composite form calls: the
\* wrapper has a target, so all it can find is a sealed pool.
InnerCheckArgs ==
    /\ Running
    /\ client.pc = "check"
    /\ IF CheckArgs("ok") = "pass"
       THEN /\ client' = [client EXCEPT !.pc = "enqueue"]
            /\ UNCHANGED call
       ELSE Leave(CheckArgs("ok"))
    /\ UNCHANGED <<completion, numThreads_, destroyed_, tasks_, threads_, numDones, dtor,
                   ncalls, task, slot, flag, crashed>>

\* Where the call goes once its k-th wrapper is on the queue.
AfterEnqueue(cl, k) ==
    IF cl.op \in PerElement /\ k < cl.n THEN [pc |-> "check", k |-> k + 1]
    ELSE IF cl.op = "dispatchSync" THEN [pc |-> "wait", k |-> 0]
    ELSE IF cl.op = "dispatchSyncR" THEN [pc |-> "gather", k |-> 1]
    ELSE [pc |-> "idle", k |-> 0]

\* tasks_.enqueue(...) of dispatch(const Task<void>&) and of
\* dispatch<R>(const Task<R>&), which first makes the promise.
Enqueue ==
    /\ Running
    /\ client.pc = "enqueue"
    /\ LET it == Wrapper(call, ncalls, client.k)
           nx == AfterEnqueue(call, client.k)
       IN /\ tasks_' = Append(tasks_, it)
          /\ task' = Enqueued(<<it>>)
          /\ slot' = IF it.k = "value"
                     THEN [slot EXCEPT ![it.t] = [st |-> "unset", v |-> 0]]
                     ELSE slot
          /\ client' = nx
          /\ call' = [call EXCEPT
                        !.enq = @ + 1,
                        !.status = IF nx.pc = "idle" THEN "ok" ELSE @]
    /\ UNCHANGED <<completion, numThreads_, destroyed_, threads_, numDones, dtor, ncalls,
                   flag, crashed>>

\* tasks_.enqueue_bulk(first, last - first)
EnqueueBulk ==
    /\ Running
    /\ client.pc = "bulk"
    /\ LET items == [j \in 1..call.n |-> Wrapper(call, ncalls, j)] IN
       /\ tasks_' = tasks_ \o items
       /\ task' = Enqueued(items)
    /\ call' = [call EXCEPT !.enq = call.n, !.status = "ok"]
    /\ client' = [pc |-> "idle", k |-> 0]
    /\ UNCHANGED <<completion, numThreads_, destroyed_, threads_, numDones, dtor, ncalls,
                   slot, flag, crashed>>

\* cv.wait(lk, [&count] { return count == 0; })
SyncWait ==
    /\ Running
    /\ client.pc = "wait"
    /\ call.count = 0
    /\ Leave("ok")
    /\ UNCHANGED <<completion, numThreads_, destroyed_, tasks_, threads_, numDones, dtor,
                   ncalls, task, slot, flag, crashed>>

\* Mutant: the futures are gathered from the back of the vector.
FutureOfReversed(cl, k) == cl.first + cl.n - k

\* futures is filled in input order: its k-th future is the k-th task's.
FutureOf(cl, k) == cl.first + k - 1

\* results.emplace_back(f.get()) for the k-th future: blocks until the slot
\* is set, and rethrows a stored failure.
SyncGather ==
    /\ Running
    /\ client.pc = "gather"
    /\ LET s == slot[FutureOf(call, client.k)]
       IN /\ s.st \in {"value", "failure"}
          /\ IF s.st = "failure" THEN Leave("TaskFailure")
             ELSE /\ call' = [call EXCEPT
                        !.res = Append(@, s.v),
                        !.status = IF client.k = call.n THEN "ok" ELSE @]
                  /\ client' = IF client.k = call.n
                               THEN [pc |-> "idle", k |-> 0]
                               ELSE [client EXCEPT !.k = @ + 1]
    /\ UNCHANGED <<completion, numThreads_, destroyed_, tasks_, threads_, numDones, dtor,
                   ncalls, task, slot, flag, crashed>>

----------------------------------------------------------------------------
\* The threads: the worker loop of the constructor, the drain loop of the
\* destructor, and the closures they invoke.

ThreadId(w) == <<threads_[w].role, w>>

\* Mutant: the composite walks its vector from the back.
BatchOrderReversed(it, i) == it.t + it.n - i

\* The i-th user task a closure calls: for (const auto &t: *tasks) and
\* for (i = 0; i < tasks->size(); ++i) walk the range in input order.
BatchOrder(it, i) == it.t + i - 1

\* The closure `it` starts on thread w: the body of its first user task runs.
StartBody(w, it) ==
    /\ task' = [task EXCEPT ![BatchOrder(it, 1)] =
                  [@ EXCEPT !.st = "running", !.runs = @ + 1,
                            !.thr = ThreadId(w)]]
    /\ threads_' = [threads_ EXCEPT ![w] =
                      [@ EXCEPT !.pc = "body", !.it = it, !.i = 1]]

\* Mutant: the loop dequeues the function and never calls it.
CallForgotten(w, it) ==
    /\ threads_' = [threads_ EXCEPT ![w] =
                      [@ EXCEPT !.pc = "dequeue", !.it = NoItem, !.i = 0]]
    /\ UNCHANGED task

\* Thread w calls the function it dequeued, t(). The closures of the
\* dispatch forms call their first user task at once; the dispatchOnce closure
\* first reaches std::call_once, a step of its own (Invoke), and so does the
\* call of an empty function.
Call(w, it) ==
    IF it.k \in {"once", "sentinel"}
    THEN /\ threads_' = [threads_ EXCEPT ![w] =
                           [@ EXCEPT !.pc = "invoke", !.it = it, !.i = 1]]
         /\ UNCHANGED task
    ELSE StartBody(w, it)

\* Mutant: the worker leaves its loop as soon as it finds the pool sealed,
\* without waiting for a sentinel.
WorkerLeavesOnSeal(w) ==
    /\ Running
    /\ threads_[w].role = "worker"
    /\ threads_[w].pc = "dequeue"
    /\ IF destroyed_
       THEN /\ threads_' = [threads_ EXCEPT ![w].pc = "exited"]
            /\ UNCHANGED <<task, tasks_>>
       ELSE /\ tasks_ # <<>>
            /\ tasks_' = Tail(tasks_)
            /\ Call(w, Head(tasks_))
    /\ UNCHANGED <<completion, numThreads_, destroyed_, numDones, dtor, client,
                   ncalls, call, slot, flag, crashed>>

\* tasks_.wait_dequeue(ctok, t); while (t) { t(); ... }: the worker leaves its
\* loop on an empty function.
WorkerDequeue(w) ==
    /\ Running
    /\ threads_[w].role = "worker"
    /\ threads_[w].pc = "dequeue"
    /\ tasks_ # <<>>
    /\ tasks_' = Tail(tasks_)
    /\ IF Head(tasks_) = Sentinel
       THEN /\ threads_' = [threads_ EXCEPT ![w].pc = "exited"]
            /\ UNCHANGED task
       ELSE Call(w, Head(tasks_))
    /\ UNCHANGED <<completion, numThreads_, destroyed_, numDones, dtor, client, ncalls, call,
                   slot, flag, crashed>>

\* while (tasks_.try_dequeue(ctok, t)) t(): no test for an empty function.
DrainerDequeue(w) ==
    /\ Running
    /\ threads_[w].role = "drainer"
    /\ threads_[w].pc = "dequeue"
    /\ tasks_ # <<>>
    /\ tasks_' = Tail(tasks_)
    /\ Call(w, Head(tasks_))
    /\ UNCHANGED <<completion, numThreads_, destroyed_, numDones, dtor, client, ncalls, call,
                   slot, flag, crashed>>

\* The drain loop's condition: the drainer goes round again exactly when its
\* own increment made the counter equal numThreads_.
AnotherPass(n) == numThreads_ = n

\* try_dequeue found nothing: } while (numThreads_ == numDones.fetch_add(1) + 1);
DrainerPassEnd(w) ==
    /\ Running
    /\ threads_[w].role = "drainer"
    /\ threads_[w].pc = "dequeue"
    /\ tasks_ = <<>>
    /\ numDones' = numDones + 1
    /\ threads_' = [threads_ EXCEPT ![w].pc =
          IF AnotherPass(numDones + 1) THEN "dequeue" ELSE "exited"]
    /\ UNCHANGED <<completion, numThreads_, destroyed_, tasks_, dtor, client, ncalls, call,
                   task, slot, flag, crashed>>

\* Mutant: the closure calls the task without looking at the flag.
FlagIgnored == "idle"

\* What std::call_once finds in the flag.
FlagSeen == flag

\* The called function is empty, which throws std::bad_function_call with
\* nothing on the thread to catch it, or it is the dispatchOnce closure at
\* std::call_once(flag, task).
Invoke(w) ==
    /\ Running
    /\ threads_[w].pc = "invoke"
    /\ LET it == threads_[w].it IN
       IF it.k = "sentinel"
       THEN /\ crashed' = TRUE
            /\ UNCHANGED <<task, threads_, flag>>
       ELSE IF FlagSeen = "done"
            THEN /\ threads_' = [threads_ EXCEPT ![w] =
                       [@ EXCEPT !.pc = "dequeue", !.it = NoItem, !.i = 0]]
                 /\ task' = [task EXCEPT ![it.t].st = "skipped"]
                 /\ UNCHANGED <<flag, crashed>>
            ELSE IF FlagSeen = "active"
            THEN /\ threads_' = [threads_ EXCEPT ![w].pc = "oncewait"]
                 /\ UNCHANGED <<task, flag, crashed>>
            ELSE IF task[it.t].kind = "empty"
            THEN /\ crashed' = TRUE
                 /\ UNCHANGED <<task, threads_, flag>>
            ELSE /\ flag' = "active"
                 /\ StartBody(w, it)
                 /\ UNCHANGED crashed
    /\ UNCHANGED <<completion, numThreads_, destroyed_, tasks_, numDones, dtor, client,
                   ncalls, call, slot>>

\* A thread blocked in call_once goes on when the active execution is over.
OnceWake(w) ==
    /\ Running
    /\ threads_[w].pc = "oncewait"
    /\ FlagSeen # "active"
    /\ threads_' = [threads_ EXCEPT ![w].pc = "invoke"]
    /\ UNCHANGED <<completion, numThreads_, destroyed_, tasks_, numDones, dtor, client,
                   ncalls, call, task, slot, flag, crashed>>

\* Mutant: the wrapper swallows the exception and sets a default value.
PromiseResultSwallowed(tid) ==
    IF task[tid].kind = "ok" THEN [st |-> "value", v |-> TaskValue(tid)]
    ELSE [st |-> "value", v |-> 0]

\* Mutant: the wrapper runs the task and never touches the promise.
PromiseResultDropped(tid) == [st |-> "unset", v |-> 0]

\* What the value-returning wrappers store: p->set_value(task()) in the try
\* block, p->set_exception(std::current_exception()) in the catch.
PromiseResult(tid) ==
    IF task[tid].kind = "ok" THEN [st |-> "value", v |-> TaskValue(tid)]
    ELSE [st |-> "failure", v |-> 0]

\* Mutant: one try block around the whole loop, so a failure ends the batch.
SerialRStopsOnFailure(ok) == ok

\* The composite of dispatchSerial<R> catches inside its loop: the loop goes
\* on whatever task i did.
SerialRContinues(ok) == TRUE

\* The body of the current user task is over: it returned or threw, and the
\* closure around it goes on.
Return(w) ==
    /\ Running
    /\ threads_[w].pc = "body"
    /\ LET it == threads_[w].it
           i == threads_[w].i
           tid == BatchOrder(it, i)
           ok == task[tid].kind = "ok"
           caught == it.k \in {"value", "serialR"}
           more == /\ i < it.n
                   /\ \/ it.k = "serial" /\ ok
                      \/ it.k = "serialR" /\ SerialRContinues(ok)
       IN /\ crashed' = (~ok /\ ~caught)
          /\ slot' = IF caught THEN [slot EXCEPT ![tid] = PromiseResult(tid)]
                     ELSE slot
          /\ flag' = IF it.k = "once" THEN (IF ok THEN "done" ELSE "idle")
                     ELSE flag
          /\ task' = [t \in TaskIds |->
                IF t = tid THEN [task[t] EXCEPT !.st = IF ok THEN "done" ELSE "failed"]
                ELSE IF more /\ t = BatchOrder(it, i + 1)
                THEN [task[t] EXCEPT !.st = "running", !.runs = @ + 1,
                                     !.thr = ThreadId(w)]
                ELSE task[t]]
          /\ threads_' = [threads_ EXCEPT ![w] =
                IF more THEN [@ EXCEPT !.i = i + 1]
                ELSE IF it.k = "sync" /\ ok THEN [@ EXCEPT !.pc = "dec"]
                ELSE IF ~ok /\ ~caught THEN @
                ELSE [@ EXCEPT !.pc = "dequeue", !.it = NoItem, !.i = 0]]
    /\ UNCHANGED <<completion, numThreads_, destroyed_, tasks_, numDones, dtor, client,
                   ncalls, call>>

\* The tail of the dispatchSync wrapper: lock m; if (--count == 0) notify.
\* count, m and cv are locals of the dispatchSync call, captured by
\* reference: once that call has left (it threw part-way), touching them is
\* undefined behaviour, which may do nothing visible or end the process.
SyncDecrement(w) ==
    /\ Running
    /\ threads_[w].pc = "dec"
    /\ LET c == threads_[w].it.c IN
       IF c = ncalls /\ call.status = "running"
       THEN /\ call' = [call EXCEPT !.count = @ - 1]
            /\ UNCHANGED crashed
       ELSE /\ crashed' \in BOOLEAN
            /\ UNCHANGED call
    /\ threads_' = [threads_ EXCEPT ![w] =
          [@ EXCEPT !.pc = "dequeue", !.it = NoItem, !.i = 0]]
    /\ UNCHANGED <<completion, numThreads_, destroyed_, tasks_, numDones, dtor, client,
                   ncalls, task, slot, flag>>

----------------------------------------------------------------------------
\* ~TaskPool()

\* destroyed_ = true
Seal ==
    /\ Running
    /\ dtor.pc = "alive"
    /\ destroyed_' = TRUE
    /\ dtor' = [pc |-> "signal", i |-> 0, raced |-> client.pc # "idle"]
    /\ UNCHANGED <<completion, numThreads_, tasks_, threads_, numDones, client, ncalls, call,
                   task, slot, flag, crashed>>

\* Mutant: a single sentinel is enqueued, whatever the number of workers.
EnqueueSentinelOnce ==
    /\ Running
    /\ dtor.pc = "signal"
    /\ dtor.i < numThreads_
    /\ tasks_' = Append(tasks_, Sentinel)
    /\ dtor' = [dtor EXCEPT !.i = numThreads_]
    /\ UNCHANGED <<completion, numThreads_, destroyed_, threads_, numDones, client,
                   ncalls, call, task, slot, flag, crashed>>

\* for (i < numThreads_) tasks_.enqueue(Task<void>{})
EnqueueSentinel ==
    /\ Running
    /\ dtor.pc = "signal"
    /\ dtor.i < numThreads_
    /\ tasks_' = Append(tasks_, Sentinel)
    /\ dtor' = [dtor EXCEPT !.i = @ + 1]
    /\ UNCHANGED <<completion, numThreads_, destroyed_, threads_, numDones, client, ncalls, call,
                   task, slot, flag, crashed>>

\* for (auto &t: threads_) t.join(); then numDones{0} and one drainer thread
\* per element of threads_.
JoinWorkers ==
    /\ Running
    /\ dtor.pc = "signal"
    /\ dtor.i = numThreads_
    /\ \A w \in Threads : threads_[w].pc = "exited"
    /\ threads_' = [w \in Threads |->
          IF w <= numThreads_
          THEN [role |-> "drainer", pc |-> "dequeue", it |-> NoItem, i |-> 0]
          ELSE threads_[w]]
    /\ numDones' = 0
    /\ dtor' = [dtor EXCEPT !.pc = "drain"]
    /\ UNCHANGED <<completion, numThreads_, destroyed_, tasks_, client, ncalls, call, task, slot,
                   flag, crashed>>

\* The second for (auto &t: threads_) t.join(); the destructor returns.
JoinDrainers ==
    /\ Running
    /\ dtor.pc = "drain"
    /\ \A w \in Threads : threads_[w].pc = "exited"
    /\ dtor' = [dtor EXCEPT !.pc = "done"]
    /\ UNCHANGED <<completion, numThreads_, destroyed_, tasks_, threads_, numDones, client,
                   ncalls, call, task, slot, flag, crashed>>

----------------------------------------------------------------------------
\* The steps of the worker loop on the closures of the forms that call
\* their task at once.
WorkerStep ==
    \/ \E w \in Threads : WorkerDequeue(w)
    \/ \E w \in Threads : Return(w)

\* The steps of the destructor and of its drainers.
DestructorStep ==
    \/ Seal
    \/ EnqueueSentinel
    \/ JoinWorkers
    \/ \E w \in Threads : DrainerDequeue(w)
    \/ \E w \in Threads : DrainerPassEnd(w)
    \/ JoinDrainers

PoolStep == WorkerStep \/ DestructorStep

\* The core scenario: single and bulk dispatches of void tasks that return,
\* value-returning dispatches of tasks that return or throw, the workers and
\* the destructor.
Next ==
    \/ PoolStep
    \/ Enqueue
    \/ EnqueueBulk
    \/ \E kind \in Singles({"ok"}) : DispatchVoid(kind)
    \/ \E kind \in Singles({"ok", "fail"}) : DispatchValue(kind)
    \/ \E args \in Ranges({"ok"}) : DispatchBulk(args)

Spec == Init /\ [][Next]_vars

----------------------------------------------------------------------------
\* Shutdown and failure capture, checked under Spec.

\* The destructor has returned, and no dispatch call was inside the pool when
\* it started.
QuietShutdown == dtor.pc = "done" /\ ~dtor.raced /\ numThreads_ >= 1

NoTaskFails == \A t \in TaskIds : task[t].kind \in {"none", "ok"}

\* C1: with N >= 1 workers and non-failing tasks whose dispatch calls had all
\* returned before the destructor started, when the destructor returns the
\* queue is empty and every task put on it has been started exactly once and
\* has finished.
C1_EveryTaskRunsOnce ==
    (QuietShutdown /\ NoTaskFails) =>
        /\ tasks_ = <<>>
        /\ \A t \in TaskIds :
              task[t].enq => task[t].runs = 1 /\ task[t].st = "done"

\* Two workers shared the tasks of a quiet shutdown.
C1_Witness ==
    /\ QuietShutdown /\ NoTaskFails
    /\ \E t, u \in TaskIds :
          /\ task[t].enq /\ task[u].enq
          /\ task[t].st = "done" /\ task[u].st = "done"
          /\ task[t].thr # task[u].thr

\* C8: a value-returning dispatch of a task that throws never resolves to a
\* value; once the task has run its slot holds the failure, no thread has
\* been lost to it, and after a quiet shutdown every task put on the queue,
\* those dispatched after the failing one included, has been started once.
C8_FailureCaptured ==
    /\ \A t \in TaskIds :
          (task[t].form = "value" /\ task[t].kind = "fail") =>
              /\ slot[t].st \in {"unset", "failure"}
              /\ task[t].st = "failed" => slot[t].st = "failure" /\ ~crashed
    /\ QuietShutdown =>
          \A t \in TaskIds : task[t].enq => task[t].runs = 1 /\ task[t].st # "running"

\* A single worker ran a throwing task, stored its failure, and then ran the
\* task dispatched after it.
C8_Witness ==
    /\ numThreads_ = 1
    /\ \E t, u \in TaskIds :
          /\ t < u
          /\ task[t].form = "value" /\ task[t].kind = "fail"
          /\ slot[t].st = "failure"
          /\ task[u].st = "done"
          /\ task[u].thr = task[t].thr

----------------------------------------------------------------------------
\* The acceptance gate of all nine dispatch forms, on a pool of at most one
\* worker, with tasks that return and empty functions.

GateKinds == {"ok", "empty"}

InitGate == Init /\ numThreads_ <= 1

NextGate ==
    \/ PoolStep
    \/ InnerCheckArgs
    \/ Enqueue
    \/ EnqueueBulk
    \/ SyncWait
    \/ SyncGather
    \/ \E w \in Threads : Invoke(w)
    \/ \E w \in Threads : SyncDecrement(w)
    \/ \E kind \in Singles(GateKinds) : DispatchVoid(kind)
    \/ \E kind \in Singles(GateKinds) : DispatchValue(kind)
    \/ \E args \in Ranges(GateKinds) : DispatchBulk(args)
    \/ \E args \in Ranges(GateKinds) : DispatchBulkValue(args)
    \/ \E args \in Ranges(GateKinds) : DispatchSync(args)
    \/ \E args \in Ranges(GateKinds) : DispatchSyncValue(args)
    \/ \E args \in Ranges(GateKinds) : DispatchSerial(args)
    \/ \E args \in Ranges(GateKinds) : DispatchSerialValue(args)
    \/ \E kind \in Singles(GateKinds) : DispatchOnce(kind)

SpecGate == InitGate /\ [][NextGate]_vars

RangeOps == {"dispatchBulk", "dispatchBulkR", "dispatchSync", "dispatchSyncR",
             "dispatchSerial", "dispatchSerialR"}

\* The tasks of the latest call.
CallTasks == {t \in TaskIds : t >= call.first /\ t < call.first + call.n}

\* The latest call was entered on a sealed pool.
OnSealed == call.op # "none" /\ call.sealed

\* The latest call was entered on a live pool.
OnLive == call.op # "none" /\ ~call.sealed

C3_Claimed ==
    /\ (OnLive /\ call.op \notin RangeOps) =>
          \A t \in CallTasks :
              task[t].kind = "empty" =>
                  /\ call.enq = 0
                  /\ call.status # "running" => call.status = "InvalidTask"
    /\ \A t \in TaskIds : task[t].kind = "empty" => ~task[t].enq
    /\ \A w \in Threads :
          threads_[w].it.k # "none" => task[threads_[w].it.t].kind # "empty"

\* C4: on a live pool a range-taking dispatch whose range holds an empty task
\* at some position ends with the invalid-task error and has enqueued nothing:
\* no task of the range is on the queue, and none is ever started.
C4_BatchRejected ==
    (OnLive /\ call.op \in RangeOps
        /\ \E t \in CallTasks : task[t].kind = "empty") =>
            /\ call.status = "InvalidTask"
            /\ call.enq = 0
            /\ \A t \in CallTasks : ~task[t].enq /\ task[t].runs = 0
            /\ \A j \in 1..Len(tasks_) : tasks_[j].t \notin CallTasks

\* A range whose last task alone is empty was refused while the queue held
\* earlier work.
C4_Witness ==
    /\ OnLive /\ call.op \in RangeOps
    /\ call.n >= 2
    /\ task[call.first].kind = "ok"
    /\ task[call.first + call.n - 1].kind = "empty"
    /\ call.status = "InvalidTask"
    /\ tasks_ # <<>>

----------------------------------------------------------------------------
\* Serial batches, of tasks that return or throw, beside single void
\* dispatches that the other workers run meanwhile, on a pool that is not
\* destroyed.

NextSerial ==
    \/ WorkerStep
    \/ InnerCheckArgs
    \/ Enqueue
    \/ \E args \in Ranges({"ok", "fail"}) : DispatchSerial(args)
    \/ \E args \in Ranges({"ok", "fail"}) : DispatchSerialValue(args)
    \/ \E kind \in Singles({"ok"}) : DispatchVoid(kind)

SpecSerial == Init /\ [][NextSerial]_vars

Finished == {"done", "failed"}

\* t and u are tasks of one serial batch, t before u in the input.
SameBatch(t, u) ==
    /\ t < u
    /\ task[t].form \in {"serial", "serialR"}
    /\ task[t].enq /\ task[u].enq
    /\ task[t].grp = task[u].grp

\* C5: in a dispatchSerial batch (void or value-returning) a task has started
\* only if every task before it in the input has finished, and it was started
\* by the thread that ran those; no task of the batch is started twice.
C5_SerialInOrder ==
    \A t, u \in TaskIds :
        SameBatch(t, u) =>
            /\ task[t].runs <= 1 /\ task[u].runs <= 1
            /\ task[u].st # "new" =>
                  task[t].st \in Finished /\ task[t].thr = task[u].thr

\* A batch of two ran to its end on one thread of a pool with two threads
\* while another thread ran an unrelated task.
C5_Witness ==
    /\ numThreads_ >= 2
    /\ \E t, u, x \in TaskIds :
          /\ SameBatch(t, u)
          /\ task[t].st \in Finished /\ task[u].st = "running"
          /\ task[x].form = "void" /\ task[x].st = "running"
          /\ task[x].thr # task[u].thr

\* C9: in a value-returning dispatchSerial batch every slot is set by its own
\* task's outcome alone (unset until the task has finished, then its value or
\* its failure), and a task that failed is followed by the next task of the
\* batch all the same.
C9_SerialFailureIsolated ==
    /\ \A t \in TaskIds :
          (task[t].form = "serialR" /\ task[t].enq) =>
              /\ task[t].st \in {"new", "running"} => slot[t].st = "unset"
              /\ task[t].st = "done" =>
                    slot[t] = [st |-> "value", v |-> TaskValue(t)]
              /\ task[t].st = "failed" => slot[t].st = "failure"
    /\ \A t, u \in TaskIds :
          (SameBatch(t, u) /\ task[t].form = "serialR" /\ u = t + 1
              /\ task[t].st = "failed") => task[u].st # "new"

\* The first task of a batch failed and the second returned its value.
C9_Witness ==
    \E t, u \in TaskIds :
        /\ SameBatch(t, u) /\ task[t].form = "serialR" /\ u = t + 1
        /\ slot[t].st = "failure"
        /\ slot[u] = [st |-> "value", v |-> TaskValue(u)]

----------------------------------------------------------------------------
\* The synchronous fan-out-join forms on a pool that is not destroyed, with
\* tasks that return; the value-returning form also with tasks that throw.

NextSync ==
    \/ WorkerStep
    \/ InnerCheckArgs
    \/ Enqueue
    \/ SyncWait
    \/ SyncGather
    \/ \E w \in Threads : SyncDecrement(w)
    \/ \E args \in Ranges({"ok"}) : DispatchSync(args)
    \/ \E args \in Ranges({"ok", "fail"}) : DispatchSyncValue(args)

SpecSync == Init /\ [][NextSync]_vars

\* The tasks of the latest call whose wrapper has decremented the counter.
Counted ==
    {t \in CallTasks :
        /\ task[t].st = "done"
        /\ \A w \in Threads : ~(threads_[w].pc = "dec" /\ threads_[w].it.t = t)}

\* C6: while a void dispatchSync is in progress its counter is the range
\* length less the tasks whose body has returned and whose wrapper has then
\* decremented it; when the call has returned normally the counter is 0 and
\* every task of the range has been started once and has finished.
C6_SyncJoins ==
    call.op = "dispatchSync" =>
        /\ call.status = "running" =>
              call.count = call.n - Cardinality(Counted)
        /\ call.status = "ok" =>
              /\ call.count = 0
              /\ \A t \in CallTasks : task[t].st = "done" /\ task[t].runs = 1

\* A void dispatchSync over two tasks, run by two threads, has returned.
C6_Witness ==
    /\ call.op = "dispatchSync" /\ call.status = "ok" /\ call.n >= 2
    /\ task[call.first].thr # task[call.first + 1].thr

\* C7: when the value-returning dispatchSync has returned normally, the
\* sequence it returned has the length of the range and holds at each
\* position the value of the task at that position.
C7_SyncResultsAligned ==
    (call.op = "dispatchSyncR" /\ call.status = "ok") =>
        /\ Len(call.res) = call.n
        /\ \A j \in 1..call.n : call.res[j] = TaskValue(call.first + j - 1)

\* The results of two tasks that two threads ran have been returned.
C7_Witness ==
    /\ call.op = "dispatchSyncR" /\ call.status = "ok" /\ call.n >= 2
    /\ task[call.first].thr # task[call.first + 1].thr

----------------------------------------------------------------------------
\* dispatchOnce calls sharing one flag, with tasks that return or throw.

NextOnce ==
    \/ PoolStep
    \/ Enqueue
    \/ \E w \in Threads : Invoke(w)
    \/ \E w \in Threads : OnceWake(w)
    \/ \E kind \in Singles({"ok", "fail"}) : DispatchOnce(kind)

SpecOnce == Init /\ [][NextOnce]_vars

OnceTasks == {t \in TaskIds : task[t].form = "once"}

\* C10: over all the dispatchOnce wrappers that share the flag, at most one
\* task body is ever started and not abandoned by a failure, so at most one
\* runs to completion; a wrapper is a no-op only after a completed run, and
\* no body starts once a run has completed.
C10_OnceAtMostOnce ==
    /\ Cardinality({t \in OnceTasks : task[t].st \in {"running", "done"}}) <= 1
    /\ \A t \in OnceTasks : task[t].runs <= 1
    /\ \A t \in OnceTasks :
          task[t].st = "skipped" =>
              /\ flag = "done"
              /\ \E u \in OnceTasks : task[u].st = "done"

\* Of two wrappers sharing the flag one ran its task to completion and the
\* other, dispatched first, came to call_once later and returned at once.
C10_Witness ==
    \E t, u \in OnceTasks :
        /\ u < t
        /\ task[t].st = "done"
        /\ task[u].st = "skipped"

----------------------------------------------------------------------------
\* The free functions onSuccess, onFailure and onComplete: each starts a
\* detached thread that waits on the future and calls the callbacks.

\* std::thread{[=] { ... }}.detach() on the future of task t.
Register(op, t, s, f) ==
    /\ Running
    /\ completion.op = "none"
    /\ slot[t].st # "none"
    /\ completion' = [op |-> op, pc |-> "get", t |-> t, success |-> s,
                      failure |-> f, exc |-> "none", calls |-> <<>>]
    /\ UNCHANGED <<numThreads_, destroyed_, tasks_, threads_, numDones, dtor,
                   client, ncalls, call, task, slot, flag, crashed>>

OnSuccess(t, s) == Register("onSuccess", t, s, "none")

OnFailure(t, f) == Register("onFailure", t, "none", f)

OnComplete(t, s, f) == Register("onComplete", t, s, f)

\* A callback invocation: which callback, and the value or the exception it
\* was handed.
Invocation(cb, v, e) == [cb |-> cb, v |-> v, e |-> e]

\* The try block. future.get() returns the value or rethrows the stored
\* failure; onSuccess and onComplete hand the value to the success callback,
\* whose own exception lands in the same catch (...) as a failure of the
\* future; onSuccess has an empty catch block.
CompletionGet ==
    /\ Running
    /\ completion.pc = "get"
    /\ slot[completion.t].st \in {"value", "failure"}
    /\ LET s == slot[completion.t]
           calling == s.st = "value" /\ completion.op # "onFailure"
           thrown == IF s.st = "failure" THEN "TaskFailure"
                     ELSE IF calling /\ completion.success = "fail"
                     THEN "CallbackFailure"
                     ELSE "none"
       IN completion' = [completion EXCEPT
             !.calls = IF calling
                       THEN Append(@, Invocation("success", s.v, "none"))
                       ELSE @,
             !.exc = thrown,
             !.pc = IF thrown # "none" /\ completion.op # "onSuccess"
                    THEN "catch" ELSE "done"]
    /\ UNCHANGED <<numThreads_, destroyed_, tasks_, threads_, numDones, dtor,
                   client, ncalls, call, task, slot, flag, crashed>>

\* catch (...) { failure(std::current_exception()); } of onFailure and
\* onComplete: an exception of the failure callback leaves the thread.
CompletionCatch ==
    /\ Running
    /\ completion.pc = "catch"
    /\ completion' = [completion EXCEPT
          !.calls = Append(@, Invocation("failure", 0, completion.exc)),
          !.exc = "none",
          !.pc = "done"]
    /\ crashed' = (completion.failure = "fail")
    /\ UNCHANGED <<numThreads_, destroyed_, tasks_, threads_, numDones, dtor,
                   client, ncalls, call, task, slot, flag>>

\* Value-returning dispatches of tasks that return or throw on a pool that
\* is not destroyed, and one callback registration on one of their futures.
NextComplete ==
    \/ WorkerStep
    \/ Enqueue
    \/ \E kind \in Singles({"ok", "fail"}) : DispatchValue(kind)
    \/ \E t \in TaskIds, s \in CallbackKinds : OnSuccess(t, s)
    \/ \E t \in TaskIds, f \in CallbackKinds : OnFailure(t, f)
    \/ \E t \in TaskIds, s, f \in CallbackKinds : OnComplete(t, s, f)
    \/ CompletionGet
    \/ CompletionCatch

SpecComplete == Init /\ [][NextComplete]_vars

\* C11 as claimed: onComplete makes at most one callback invocation, and once
\* its thread is through it has made exactly one: success(value) alone when
\* the future holds a value, failure(error) alone when it holds a failure,
\* whatever the callbacks do.
C11_Claimed ==
    completion.op = "onComplete" =>
        /\ Len(completion.calls) <= 1
        /\ completion.pc = "done" =>
              LET s == slot[completion.t] IN
              /\ Len(completion.calls) = 1
              /\ s.st = "value" =>
                    completion.calls[1] = Invocation("success", s.v, "none")
              /\ s.st = "failure" =>
                    completion.calls[1] = Invocation("failure", 0, "TaskFailure")

----------------------------------------------------------------------------
\* Dispatch calls racing the destructor, checked under Spec: a call that
\* passed checkArgs before the seal enqueues whenever its thread gets to it.

\* C12 as claimed: on a pool with workers, when the destructor's final join
\* completes the queue is empty and every task whose enqueue has taken effect
\* by then has been started exactly once and has finished.
C12_Claimed ==
    [][(numThreads_ >= 1 /\ dtor.pc = "drain" /\ dtor'.pc = "done") =>
          /\ tasks_' = <<>>
          /\ \A t \in TaskIds :
                task'[t].enq => task'[t].runs = 1 /\ task'[t].st \in Finished]_vars

----------------------------------------------------------------------------
\* The void dispatch forms with tasks that return or throw, the workers and
\* the destructor.

NextVoid ==
    \/ PoolStep
    \/ InnerCheckArgs
    \/ Enqueue
    \/ EnqueueBulk
    \/ SyncWait
    \/ \E w \in Threads : SyncDecrement(w)
    \/ \E kind \in Singles({"ok", "fail"}) : DispatchVoid(kind)
    \/ \E args \in Ranges({"ok", "fail"}) : DispatchBulk(args)
    \/ \E args \in Ranges({"ok", "fail"}) : DispatchSync(args)
    \/ \E args \in Ranges({"ok", "fail"}) : DispatchSerial(args)

SpecVoid == Init /\ [][NextVoid]_vars

\* The closures that run a task with nothing around it to catch a failure.
VoidForms == {"void", "sync", "serial"}

\* C13 as claimed: once a task of a void dispatch form has failed, the process
\* is still running, the thread that ran the task is back in its loop or on
\* the rest of its closure, and where the destructor has returned every task
\* put on the queue has been started exactly once.
C13_Claimed ==
    \A t \in TaskIds :
        (task[t].form \in VoidForms /\ task[t].st = "failed") =>
            /\ Running
            /\ \A w \in Threads :
                  ~(threads_[w].pc = "body" /\ task[t].thr = ThreadId(w)
                      /\ BatchOrder(threads_[w].it, threads_[w].i) = t)
            /\ QuietShutdown =>
                  \A u \in TaskIds : task[u].enq => task[u].runs = 1

----------------------------------------------------------------------------
\* The four value-returning forms with tasks that return or throw, on a pool
\* that is not destroyed.

NextValue ==
    \/ WorkerStep
    \/ InnerCheckArgs
    \/ Enqueue
    \/ SyncGather
    \/ \E kind \in Singles({"ok", "fail"}) : DispatchValue(kind)
    \/ \E args \in Ranges({"ok", "fail"}) : DispatchBulkValue(args)
    \/ \E args \in Ranges({"ok", "fail"}) : DispatchSyncValue(args)
    \/ \E args \in Ranges({"ok", "fail"}) : DispatchSerialValue(args)

SpecValue == Init /\ [][NextValue]_vars

\* The states of a result slot.
SlotStates == {"unset", "value", "failure"}

\* Every task a value-returning form has put on the queue has a slot, a slot
\* is in one of the three states, a value it holds is its task's, and the
\* slot of a task that has run is set.
SlotInvariant ==
    \A t \in TaskIds :
        /\ (task[t].enq /\ task[t].form \in {"value", "serialR"}) =>
              slot[t].st \in SlotStates
        /\ slot[t].st # "none" =>
              /\ slot[t].st \in SlotStates
              /\ slot[t].st = "value" => slot[t].v = TaskValue(t)
              /\ task[t].st \in Finished => slot[t].st # "unset"

\* A slot that exists goes on existing, and a slot that is set keeps what it
\* holds.
SlotStep ==
    \A t \in TaskIds :
        /\ slot[t].st = "unset" => slot'[t].st \in SlotStates
        /\ slot[t].st \in {"value", "failure"} => slot'[t] = slot[t]

\* C14: every result slot of a value-returning form is unset, set with a value
\* or set with a failure; it leaves unset at most once and then never changes,
\* and it is no longer unset once the task that owns it has run.
C14_SlotSetOnce == []SlotInvariant /\ [][SlotStep]_vars

\* A serial batch and a single dispatch have both resolved slots, one with a
\* failure and one with a value.
C14_Witness ==
    \E t, u \in TaskIds :
        /\ task[t].form = "serialR" /\ slot[t].st = "failure"
        /\ task[u].form = "value" /\ slot[u].st = "value"

----------------------------------------------------------------------------
\* The drain phase, checked under Spec.

\* C15 as claimed: a drainer that ends a pass and increments the counter
\* leaves its loop only if the increment made the counter equal numThreads_;
\* after any other value it is still in the loop.
C15_Claimed ==
    [][\A w \in Threads :
          (/\ threads_[w].role = "drainer"
           /\ threads_[w].pc = "dequeue"
           /\ threads_'[w].pc = "exited") => numDones' = numThreads_]_vars

----------------------------------------------------------------------------
\* Construction, checked under Spec.

\* The threads the constructor spawned (later the drainers in their place).
PoolThreads == {w \in Threads : threads_[w].role # "none"}

\* C16 as claimed: a pool has at least one thread whatever count was asked
\* for, so a pool that has accepted a task has a thread to run it.
C16_Claimed ==
    (\E t \in TaskIds : task[t].enq) => Cardinality(PoolThreads) >= 1

----------------------------------------------------------------------------
\* The forms that go through the inner dispatch once per element, with tasks
\* that return, racing the destructor.

NextRace ==
    \/ PoolStep
    \/ InnerCheckArgs
    \/ Enqueue
    \/ SyncWait
    \/ SyncGather
    \/ \E w \in Threads : SyncDecrement(w)
    \/ \E args \in Ranges({"ok"}) : DispatchBulkValue(args)
    \/ \E args \in Ranges({"ok"}) : DispatchSync(args)
    \/ \E args \in Ranges({"ok"}) : DispatchSyncValue(args)

SpecRace == Init /\ [][NextRace]_vars

\* C17 as claimed: a dispatch call that ended with the pool-destroyed error
\* has put none of its tasks on the queue.
C17_Claimed ==
    call.status = "PoolDestroyed" =>
        /\ call.enq = 0
        /\ \A t \in CallTasks : ~task[t].enq

----------------------------------------------------------------------------
\* Termination of the destructor: single void dispatches of tasks that
\* return, the workers and the destructor, under fair scheduling of the
\* threads the pool owns and of the thread inside ~TaskPool.

NextShutdown ==
    \/ PoolStep
    \/ Enqueue
    \/ \E kind \in Singles({"ok"}) : DispatchVoid(kind)

\* A thread that can take a step is not held back for ever. Nothing is
\* required of the clients: a dispatch call may stall, and the destructor
\* need never be called.
FairThreads ==
    /\ \A w \in Threads :
          WF_vars(\/ WorkerDequeue(w)
                  \/ Return(w)
                  \/ DrainerDequeue(w)
                  \/ DrainerPassEnd(w))
    /\ WF_vars(EnqueueSentinel \/ JoinWorkers \/ JoinDrainers)

SpecShutdown == Init /\ [][NextShutdown]_vars /\ FairThreads

\* C18: on a pool with N >= 1 workers whose tasks all return, a destructor
\* that has set destroyed_ eventually returns, whatever dispatch calls race
\* it; returning takes every worker and then every drainer to have exited.
C18_DestructorTerminates ==
    (dtor.pc = "signal" /\ numThreads_ >= 1) ~> (dtor.pc = "done")

\* The destructor of a pool of two threads has returned after a drainer ran
\* a task that a racing dispatch enqueued behind the sentinels.
C18_Witness ==
    /\ dtor.pc = "done" /\ numThreads_ >= 2
    /\ \A w \in PoolThreads : threads_[w].pc = "exited"
    /\ \E t \in TaskIds :
          task[t].st = "done" /\ task[t].thr \in {<<"drainer", w>> : w \in Threads}

----------------------------------------------------------------------------
\* The sentinels, checked under Spec (no task of Spec takes a thread down).

\* The sentinels now on the queue.
SentinelsQueued == Cardinality({j \in 1..Len(tasks_) : tasks_[j] = Sentinel})

\* The workers that have left their loop.
WorkersExited ==
    {w \in Threads : threads_[w].role = "worker" /\ threads_[w].pc = "exited"}

\* C19: while the sentinels are handed out, each one enqueued so far is on the
\* queue or has taken exactly one worker out of its loop; in the drain phase
\* and after it the queue holds no sentinel; and no thread, worker or
\* drainer, ever comes to call a sentinel as a task.
C19_NoSentinelRuns ==
    /\ dtor.pc = "alive" => SentinelsQueued = 0 /\ WorkersExited = {}
    /\ dtor.pc = "signal" =>
          SentinelsQueued + Cardinality(WorkersExited) = dtor.i
    /\ dtor.pc \in {"drain", "done"} => SentinelsQueued = 0
    /\ \A w \in Threads : threads_[w].it # Sentinel

\* In the drain phase of a pool of two threads, a drainer is running a task
\* that a racing dispatch enqueued behind the sentinels.
C19_Witness ==
    /\ dtor.pc = "drain" /\ numThreads_ >= 2
    /\ \E w \in Threads :
          /\ threads_[w].role = "drainer"
          /\ threads_[w].pc = "body"
          /\ task[threads_[w].it.t].enq

----------------------------------------------------------------------------
\* Termination of dispatchSync: both forms with tasks that return, on a pool
\* that is not destroyed, under fair scheduling of the workers and of the
\* calling thread.

NextSyncLive ==
    \/ WorkerStep
    \/ InnerCheckArgs
    \/ Enqueue
    \/ SyncWait
    \/ SyncGather
    \/ \E w \in Threads : SyncDecrement(w)
    \/ \E args \in Ranges({"ok"}) : DispatchSync(args)
    \/ \E args \in Ranges({"ok"}) : DispatchSyncValue(args)

\* A worker that can take a step is not held back for ever, and neither is
\* the thread that is inside a dispatch call; nothing makes a client start a
\* call.
FairSync ==
    /\ \A w \in Threads :
          WF_vars(WorkerDequeue(w) \/ Return(w) \/ SyncDecrement(w))
    /\ WF_vars(InnerCheckArgs \/ Enqueue \/ SyncWait \/ SyncGather)

SpecSyncLive == Init /\ [][NextSyncLive]_vars /\ FairSync

\* A dispatchSync call, void or value-returning, is in progress on a pool
\* with at least one worker.
InSync ==
    /\ numThreads_ >= 1
    /\ call.op \in {"dispatchSync", "dispatchSyncR"}
    /\ call.status = "running"

\* C20: a dispatchSync call in progress on a live pool with N >= 1 workers,
\* over tasks that return, eventually returns normally.
C20_SyncReturns == InSync ~> (call.status = "ok" /\ client.pc = "idle")

\* A void dispatchSync has returned, and after it a value-returning one over
\* at least two tasks.
C20_Witness ==
    /\ \E t \in TaskIds : task[t].form = "sync" /\ task[t].st = "done"
    /\ call.op = "dispatchSyncR" /\ call.status = "ok" /\ call.n >= 2

====
